---- MODULE Spec2Model ----
(***************************************************************************)
(* Model of the homework status bot (homework.py, exceptions.py).          *)
(*                                                                         *)
(* Python values are modelled as follows.  A decoded JSON value is a       *)
(* record tagged with its Python class name (type), a dict's val being a   *)
(* function from its keys.  A homework record is a function from the keys  *)
(* it has to strings.  An exception is a record of its class name and its  *)
(* message; a message is a record of the f-string's literal text and the   *)
(* values interpolated into it.  Literal texts are given in English, the   *)
(* source's being Russian.                                                 *)
(***************************************************************************)
EXTENDS Integers, Sequences, FiniteSets, TLC

VARIABLES
    env,            \* module constants PRACTICUM_TOKEN, TELEGRAM_TOKEN, TELEGRAM_CHAT_ID
    pc,             \* position of main
    timestamp,      \* main's local: from_date of the next request
    prev_status,    \* main's local: status of the last delivered notification
    prev_err_msg,   \* main's local, bound in the except block only
    response,       \* main's local: decoded API answer of this cycle
    homeworks,      \* main's local: list returned by check_response
    verdict,        \* main's local: text returned by parse_status
    error,          \* exception in flight / the one that ended main
    http,           \* what requests.get did in this cycle
    chat,           \* send_message calls since the last API request:
                    \* <<[text, transport, ok]>>, ok being the value returned
    log,            \* logger calls since the last API request: <<[level, event]>>
    slept,          \* seconds spent in time.sleep since the last API request
    polled,         \* TRUE once an API request has been issued
    last            \* the previous cycle: name and status of the homework whose
                    \* verdict it formatted ("" if none), its number of
                    \* send_message calls, whether all of them returned True

vars == <<env, pc, timestamp, prev_status, prev_err_msg, response, homeworks,
          verdict, error, http, chat, log, slept, polled, last>>

----------------------------------------------------------------------------
(* Bounds of the model *)

\* timestamps the clock and the API's current_date range over: 1..MaxDate
MaxDate == 2
\* homework records that may follow homeworks[0] in a response
MaxOlder == 1

----------------------------------------------------------------------------
(* Python values *)

None == [type |-> "NoneType"]
PyInt(n) == [type |-> "int", val |-> n]
PyStr(s) == [type |-> "str", val |-> s]
PyList(items) == [type |-> "list", val |-> items]
PyDict(f) == [type |-> "dict", val |-> f]

\* a local name that has not been assigned: of a value, of a string
Unbound == [type |-> "unbound"]
UnboundStr == "<unbound>"

\* the empty dict
EmptyMap == [k \in {} |-> None]

\* dict.get(key)
Get(d, key) == IF key \in DOMAIN d.val THEN d.val[key] ELSE None

\* value.__class__.__name__
ClassName(value) == value.type

Exception(type, message) == [type |-> type, message |-> message]

\* the exception classes of exceptions.py store args[0] as message and return it
\* from __str__; the builtin ones used here print their single argument
ExcStr(exc) == exc.message

----------------------------------------------------------------------------
(* Module constants *)

RETRY_PERIOD == 600

HTTPStatus_OK == 200

TokenNames == <<"PRACTICUM_TOKEN", "TELEGRAM_TOKEN", "TELEGRAM_CHAT_ID">>

HOMEWORK_VERDICTS ==
    [approved |-> "Work checked: the reviewer liked everything. Hooray!",
     reviewing |-> "Work taken for review by the reviewer.",
     rejected |-> "Work checked: the reviewer has remarks."]

----------------------------------------------------------------------------
(* check_tokens *)

\* the body of the for loop from position i on, lost_tokens being lost; the
\* raise sits inside the loop, after the test of each value
RECURSIVE CheckTokensFrom(_, _, _)
CheckTokensFrom(values, i, lost) ==
    IF i > Len(TokenNames)
      THEN [raised |-> FALSE, lost |-> lost]
      ELSE LET name == TokenNames[i]
               lost_tokens == IF values[name] = None THEN Append(lost, name) ELSE lost
           IN  IF lost_tokens # << >>
                 THEN [raised |-> TRUE,
                       lost |-> lost_tokens,
                       exc |-> Exception("TokenCheckError",
                                  [text |-> "Required environment variables not found: ",
                                   names |-> lost_tokens])]
                 ELSE CheckTokensFrom(values, i + 1, lost_tokens)

check_tokens(values) == CheckTokensFrom(values, 1, << >>)

----------------------------------------------------------------------------
(* send_message *)

\* outcomes of bot.send_message: it returns, or raises some Exception
TransportOutcomes == {"returned", "raised"}

send_message_AlwaysTrue(message, outcome) ==
    [ret |-> TRUE,
     log |-> IF outcome = "raised"
               THEN [level |-> "ERROR", event |-> "telegram_not_sent"]
               ELSE [level |-> "DEBUG", event |-> "telegram_sent"]]

send_message(message, outcome) ==
    IF outcome = "raised"
      THEN [ret |-> FALSE, log |-> [level |-> "ERROR", event |-> "telegram_not_sent"]]
      ELSE [ret |-> TRUE, log |-> [level |-> "DEBUG", event |-> "telegram_sent"]]

----------------------------------------------------------------------------
(* get_api_answer *)

\* what requests.get and response.json() can do: the GET raises a
\* RequestException, or returns a response with a status code whose body
\* decodes to a JSON value or does not decode
NetworkError == [kind |-> "RequestException"]
InvalidJson == [type |-> "invalid json"]
HttpResponse(code, body) == [kind |-> "response", status_code |-> code, body |-> body]

get_api_answer_IgnoreStatus(ts, reply) ==
    IF reply.kind = "RequestException"
      THEN [raised |-> TRUE,
            exc |-> Exception("ConnectionError",
                       [text |-> "Request error. The request failed: ",
                        from_date |-> ts])]
    ELSE IF reply.body = InvalidJson
      THEN [raised |-> TRUE,
            exc |-> Exception("JSONDecodeError", [text |-> "Expecting value"])]
    ELSE [raised |-> FALSE, value |-> reply.body]

get_api_answer(ts, reply) ==
    IF reply.kind = "RequestException"
      THEN [raised |-> TRUE,
            exc |-> Exception("ConnectionError",
                       [text |-> "Request error. The request failed: ",
                        from_date |-> ts])]
    ELSE IF reply.status_code # HTTPStatus_OK
      THEN [raised |-> TRUE,
            exc |-> Exception("ResponseStatusNotOK",
                       [text |-> "The requested resource is unavailable. Response code: ",
                        status_code |-> reply.status_code])]
    ELSE IF reply.body = InvalidJson
      THEN [raised |-> TRUE,
            exc |-> Exception("JSONDecodeError", [text |-> "Expecting value"])]
    ELSE [raised |-> FALSE, value |-> reply.body]

----------------------------------------------------------------------------
(* check_response *)

\* check_response without the isinstance test of response['homeworks']
check_response_NoListTest(resp) ==
    IF ClassName(resp) # "dict"
      THEN [raised |-> TRUE,
            exc |-> Exception("TypeError",
                       [text |-> "Expected dict in the server response, got ",
                        class |-> ClassName(resp)])]
    ELSE IF "homeworks" \notin DOMAIN resp.val
      THEN [raised |-> TRUE,
            exc |-> Exception("TypeError",
                       [text |-> "Key homeworks not found in the server response"])]
    ELSE [raised |-> FALSE, value |-> resp.val["homeworks"]]

check_response(resp) ==
    IF ClassName(resp) # "dict"
      THEN [raised |-> TRUE,
            exc |-> Exception("TypeError",
                       [text |-> "Expected dict in the server response, got ",
                        class |-> ClassName(resp)])]
    ELSE IF "homeworks" \notin DOMAIN resp.val
      THEN [raised |-> TRUE,
            exc |-> Exception("TypeError",
                       [text |-> "Key homeworks not found in the server response"])]
    ELSE IF ClassName(resp.val["homeworks"]) # "list"
      THEN [raised |-> TRUE,
            exc |-> Exception("TypeError",
                       [text |-> "Expected list under key homeworks, got ",
                        class |-> ClassName(resp.val["homeworks"])])]
    ELSE [raised |-> FALSE, value |-> resp.val["homeworks"]]

----------------------------------------------------------------------------
(* parse_status *)

parse_status(homework) ==
    IF "homework_name" \notin DOMAIN homework
      THEN [raised |-> TRUE,
            exc |-> Exception("HomeworkError",
                       [text |-> "Key homework_name not found in the API response"])]
    ELSE IF "status" \notin DOMAIN homework
      THEN [raised |-> TRUE,
            exc |-> Exception("KeyError", [text |-> "'status'"])]
    ELSE IF homework["status"] \notin DOMAIN HOMEWORK_VERDICTS
      THEN [raised |-> TRUE,
            exc |-> Exception("HomeworkError",
                       [text |-> "The homework status received matches none of the expected: ",
                        homework_status |-> homework["status"]])]
    ELSE [raised |-> FALSE,
          value |-> [text |-> "The status of the work has changed.",
                     homework_name |-> homework["homework_name"],
                     verdict |-> HOMEWORK_VERDICTS[homework["status"]]]]

----------------------------------------------------------------------------
(* The environment: what the .env file, the clock, the API and Telegram can do *)

Dates == 1 .. MaxDate

\* a variable of the environment is None when unset
TokenValues == {None, PyStr("secret")}
Environments == [{TokenNames[i] : i \in 1 .. Len(TokenNames)} -> TokenValues]

HomeworkNames == {"hw1", "hw2"}

\* homework records: every name with every known status, and one record each
\* with a status outside HOMEWORK_VERDICTS, without status, without name
HomeworkRecords ==
    {[homework_name |-> n, status |-> s] : n \in HomeworkNames, s \in DOMAIN HOMEWORK_VERDICTS}
    \cup {[homework_name |-> "hw1", status |-> "unknown"],
          [homework_name |-> "hw1"],
          [status |-> "approved"]}

\* the records that follow homeworks[0]
OlderRecords == {[homework_name |-> "hw2", status |-> "approved"]}

RECURSIVE SeqsUpTo(_, _)
SeqsUpTo(S, n) ==
    IF n = 0 THEN {<< >>}
    ELSE LET shorter == SeqsUpTo(S, n - 1)
         IN  shorter \cup {Append(q, x) : q \in shorter, x \in S}

HomeworkLists ==
    {<< >>} \cup {<<h>> \o older : h \in HomeworkRecords, older \in SeqsUpTo(OlderRecords, MaxOlder)}

\* decoded JSON bodies: dicts with and without each key, a list under
\* homeworks or something else, and a body that is no dict
JsonBodies ==
    {PyDict([homeworks |-> PyList(l), current_date |-> PyInt(d)]) : l \in HomeworkLists, d \in Dates}
    \cup {PyDict([homeworks |-> PyList(l)]) : l \in HomeworkLists}
    \cup {PyDict([homeworks |-> PyDict(EmptyMap)]), PyDict([current_date |-> PyInt(1)]),
          PyDict(EmptyMap), PyList(<< >>)}

HttpStatusCodes == {HTTPStatus_OK, 404, 500}

\* bodies sent with a status other than 200
ErrorBodies == {InvalidJson, PyDict([homeworks |-> PyList(<< >>)])}

HttpOutcomes ==
    {NetworkError}
    \cup {HttpResponse(HTTPStatus_OK, body) : body \in JsonBodies \cup {InvalidJson}}
    \cup {HttpResponse(code, body) : code \in HttpStatusCodes \ {HTTPStatus_OK}, body \in ErrorBodies}

----------------------------------------------------------------------------
(* main *)

EmptyText == [text |-> ""]

StartedMessage(now) == [text |-> "Started tracking the homework status.", at |-> now]

ErrMsg(exc) == [text |-> "Program failure: ", error |-> ExcStr(exc)]

\* a send_message call: its text, what bot.send_message did, the value returned
Sent(message, outcome, ret) == [text |-> message, transport |-> outcome, ok |-> ret]

LogEntry(level, event) == [level |-> level, event |-> event]

\* what the next cycle remembers of this one
CycleSummary ==
    [name |-> IF verdict # Unbound THEN homeworks.val[1]["homework_name"] ELSE "",
     status |-> IF verdict # Unbound THEN homeworks.val[1]["status"] ELSE "",
     sent |-> Len(chat),
     delivered |-> \A i \in 1 .. Len(chat) : chat[i].ok]

Init ==
    /\ env \in Environments
    /\ pc = "check_tokens"
    /\ timestamp = Unbound
    /\ prev_status = UnboundStr
    /\ prev_err_msg = Unbound
    /\ response = Unbound
    /\ homeworks = Unbound
    /\ verdict = Unbound
    /\ error = Unbound
    /\ http = Unbound
    /\ chat = << >>
    /\ log = << >>
    /\ slept = 0
    /\ polled = FALSE
    /\ last = [name |-> "", status |-> "", sent |-> 0, delivered |-> TRUE]

\* CheckTokens that logs the missing variables and goes on
CheckTokensOnlyLogs ==
    /\ pc = "check_tokens"
    /\ LET r == check_tokens(env)
       IN  log' = log \o [i \in 1 .. Len(r.lost) |-> LogEntry("CRITICAL", "token_not_found")]
    /\ pc' = "startup"
    /\ UNCHANGED <<env, timestamp, prev_status, prev_err_msg, response, homeworks,
                   verdict, error, http, chat, slept, polled, last>>

\* line 143: check_tokens(); TokenCheckError is not caught and ends main
CheckTokens ==
    /\ pc = "check_tokens"
    /\ LET r == check_tokens(env)
       IN  /\ log' = log \o [i \in 1 .. Len(r.lost) |-> LogEntry("CRITICAL", "token_not_found")]
           /\ IF r.raised
                THEN pc' = "terminated" /\ error' = r.exc
                ELSE pc' = "startup" /\ error' = error
    /\ UNCHANGED <<env, timestamp, prev_status, prev_err_msg, response, homeworks,
                   verdict, http, chat, slept, polled, last>>

\* lines 144-148: the bot, the timestamp, the "started" message, prev_status
Startup ==
    /\ pc = "startup"
    /\ \E now \in Dates, outcome \in TransportOutcomes :
         LET message == StartedMessage(now)
             s == send_message(message, outcome)
         IN  /\ timestamp' = PyInt(now)
             /\ chat' = Append(chat, Sent(message, outcome, s.ret))
             /\ log' = Append(log, s.log)
    /\ prev_status' = ""
    /\ pc' = "request"
    /\ UNCHANGED <<env, prev_err_msg, response, homeworks, verdict, error, http,
                   slept, polled, last>>

\* line 151: a cycle begins with get_api_answer(timestamp); chat, log and
\* slept start over
GetApiAnswer ==
    /\ pc = "request"
    /\ \E outcome \in HttpOutcomes :
         LET r == get_api_answer(timestamp, outcome)
         IN  /\ http' = outcome
             /\ IF r.raised
                  THEN /\ error' = r.exc
                       /\ response' = Unbound
                       /\ pc' = "except"
                  ELSE /\ error' = Unbound
                       /\ response' = r.value
                       /\ pc' = "check_response"
    /\ chat' = << >>
    /\ log' = <<LogEntry("DEBUG", "request")>>
    /\ slept' = 0
    /\ polled' = TRUE
    /\ UNCHANGED <<env, timestamp, prev_status, prev_err_msg, homeworks, verdict, last>>

\* CheckResponse that moves timestamp to current_date when the list is empty
CheckResponseAdvancesTimestamp ==
    /\ pc = "check_response"
    /\ LET r == check_response(response)
       IN  IF r.raised
             THEN /\ error' = r.exc
                  /\ pc' = "except"
                  /\ UNCHANGED <<homeworks, log, timestamp>>
           ELSE IF r.value.val = << >>
             THEN /\ homeworks' = r.value
                  /\ log' = Append(log, LogEntry("DEBUG", "no_homeworks"))
                  /\ timestamp' = Get(response, "current_date")
                  /\ pc' = "sleep"
                  /\ UNCHANGED error
           ELSE /\ homeworks' = r.value
                /\ pc' = "parse_status"
                /\ UNCHANGED <<error, log, timestamp>>
    /\ UNCHANGED <<env, prev_status, prev_err_msg, response, verdict,
                   http, chat, slept, polled, last>>

\* CheckResponse whose continue goes straight to the next request
CheckResponseSkipsSleep ==
    /\ pc = "check_response"
    /\ LET r == check_response(response)
       IN  IF r.raised
             THEN /\ error' = r.exc
                  /\ pc' = "except"
                  /\ UNCHANGED <<homeworks, log>>
           ELSE IF r.value.val = << >>
             THEN /\ homeworks' = r.value
                  /\ log' = Append(log, LogEntry("DEBUG", "no_homeworks"))
                  /\ pc' = "request"
                  /\ UNCHANGED error
           ELSE /\ homeworks' = r.value
                /\ pc' = "parse_status"
                /\ UNCHANGED <<error, log>>
    /\ UNCHANGED <<env, timestamp, prev_status, prev_err_msg, response, verdict,
                   http, chat, slept, polled, last>>

\* CheckResponse without the test for the empty list: homeworks[0] raises
CheckResponseNoEmptyTest ==
    /\ pc = "check_response"
    /\ LET r == check_response(response)
       IN  IF r.raised
             THEN /\ error' = r.exc
                  /\ pc' = "except"
                  /\ UNCHANGED homeworks
           ELSE IF r.value.val = << >>
             THEN /\ homeworks' = r.value
                  /\ error' = Exception("IndexError", [text |-> "list index out of range"])
                  /\ pc' = "except"
           ELSE /\ homeworks' = r.value
                /\ pc' = "parse_status"
                /\ UNCHANGED error
    /\ UNCHANGED <<env, timestamp, prev_status, prev_err_msg, response, verdict,
                   http, chat, log, slept, polled, last>>

\* lines 152-155: check_response, and the empty list's continue
CheckResponse ==
    /\ pc = "check_response"
    /\ LET r == check_response(response)
       IN  IF r.raised
             THEN /\ error' = r.exc
                  /\ pc' = "except"
                  /\ UNCHANGED <<homeworks, log>>
           ELSE IF r.value.val = << >>
             THEN /\ homeworks' = r.value
                  /\ log' = Append(log, LogEntry("DEBUG", "no_homeworks"))
                  /\ pc' = "sleep"
                  /\ UNCHANGED error
           ELSE /\ homeworks' = r.value
                /\ pc' = "parse_status"
                /\ UNCHANGED <<error, log>>
    /\ UNCHANGED <<env, timestamp, prev_status, prev_err_msg, response, verdict,
                   http, chat, slept, polled, last>>

\* ParseStatus that takes the last record of the list, homeworks[-1]
ParseStatusOfLast ==
    /\ pc = "parse_status"
    /\ LET r == parse_status(homeworks.val[Len(homeworks.val)])
       IN  IF r.raised
             THEN /\ error' = r.exc
                  /\ pc' = "except"
                  /\ UNCHANGED verdict
             ELSE /\ verdict' = r.value
                  /\ pc' = "compare"
                  /\ UNCHANGED error
    /\ UNCHANGED <<env, timestamp, prev_status, prev_err_msg, response, homeworks,
                   http, chat, log, slept, polled, last>>

\* lines 156-157: homework = homeworks[0]; verdict = parse_status(homework)
ParseStatus ==
    /\ pc = "parse_status"
    /\ LET r == parse_status(homeworks.val[1])
       IN  IF r.raised
             THEN /\ error' = r.exc
                  /\ pc' = "except"
                  /\ UNCHANGED verdict
             ELSE /\ verdict' = r.value
                  /\ pc' = "compare"
                  /\ UNCHANGED error
    /\ UNCHANGED <<env, timestamp, prev_status, prev_err_msg, response, homeworks,
                   http, chat, log, slept, polled, last>>

\* Notify that also notifies when the homework is not the one of the cycle before
NotifyComparesName ==
    /\ pc = "compare"
    /\ LET homework == homeworks.val[1]
       IN  IF homework["status"] # prev_status \/ homework["homework_name"] # last.name
             THEN \E outcome \in TransportOutcomes :
                    LET s == send_message(verdict, outcome)
                    IN  /\ chat' = Append(chat, Sent(verdict, outcome, s.ret))
                        /\ IF s.ret
                             THEN /\ prev_status' = homework["status"]
                                  /\ timestamp' = Get(response, "current_date")
                                  /\ log' = Append(log, s.log)
                             ELSE /\ log' = log \o <<s.log, LogEntry("INFO", "status_not_changed")>>
                                  /\ UNCHANGED <<prev_status, timestamp>>
             ELSE /\ log' = Append(log, LogEntry("INFO", "status_not_changed"))
                  /\ UNCHANGED <<prev_status, timestamp, chat>>
    /\ pc' = "sleep"
    /\ UNCHANGED <<env, prev_err_msg, response, homeworks, verdict, error, http,
                   slept, polled, last>>

\* Notify with prev_status and timestamp assigned whatever send_message returns
NotifyUpdatesAlways ==
    /\ pc = "compare"
    /\ LET homework == homeworks.val[1]
       IN  IF homework["status"] # prev_status
             THEN \E outcome \in TransportOutcomes :
                    LET s == send_message(verdict, outcome)
                    IN  /\ chat' = Append(chat, Sent(verdict, outcome, s.ret))
                        /\ prev_status' = homework["status"]
                        /\ timestamp' = Get(response, "current_date")
                        /\ log' = Append(log, s.log)
             ELSE /\ log' = Append(log, LogEntry("INFO", "status_not_changed"))
                  /\ UNCHANGED <<prev_status, timestamp, chat>>
    /\ pc' = "sleep"
    /\ UNCHANGED <<env, prev_err_msg, response, homeworks, verdict, error, http,
                   slept, polled, last>>

\* Notify without the comparison with prev_status
NotifyWithoutComparison ==
    /\ pc = "compare"
    /\ LET homework == homeworks.val[1]
       IN  \E outcome \in TransportOutcomes :
             LET s == send_message(verdict, outcome)
             IN  /\ chat' = Append(chat, Sent(verdict, outcome, s.ret))
                 /\ IF s.ret
                      THEN /\ prev_status' = homework["status"]
                           /\ timestamp' = Get(response, "current_date")
                           /\ log' = Append(log, s.log)
                      ELSE /\ log' = log \o <<s.log, LogEntry("INFO", "status_not_changed")>>
                           /\ UNCHANGED <<prev_status, timestamp>>
    /\ pc' = "sleep"
    /\ UNCHANGED <<env, prev_err_msg, response, homeworks, verdict, error, http,
                   slept, polled, last>>

\* Notify that leaves timestamp alone after a delivered notification
NotifyKeepsTimestamp ==
    /\ pc = "compare"
    /\ LET homework == homeworks.val[1]
       IN  IF homework["status"] # prev_status
             THEN \E outcome \in TransportOutcomes :
                    LET s == send_message(verdict, outcome)
                    IN  /\ chat' = Append(chat, Sent(verdict, outcome, s.ret))
                        /\ IF s.ret
                             THEN /\ prev_status' = homework["status"]
                                  /\ log' = Append(log, s.log)
                             ELSE /\ log' = log \o <<s.log, LogEntry("INFO", "status_not_changed")>>
                                  /\ UNCHANGED prev_status
             ELSE /\ log' = Append(log, LogEntry("INFO", "status_not_changed"))
                  /\ UNCHANGED <<prev_status, chat>>
    /\ pc' = "sleep"
    /\ UNCHANGED <<env, timestamp, prev_err_msg, response, homeworks, verdict, error,
                   http, slept, polled, last>>

\* lines 158-164: the comparison with prev_status, the notification, the
\* update of prev_status and timestamp, the "not changed" log entry
Notify ==
    /\ pc = "compare"
    /\ LET homework == homeworks.val[1]
       IN  IF homework["status"] # prev_status
             THEN \E outcome \in TransportOutcomes :
                    LET s == send_message(verdict, outcome)
                    IN  /\ chat' = Append(chat, Sent(verdict, outcome, s.ret))
                        /\ IF s.ret
                             THEN /\ prev_status' = homework["status"]
                                  /\ timestamp' = Get(response, "current_date")
                                  /\ log' = Append(log, s.log)
                             ELSE /\ log' = log \o <<s.log, LogEntry("INFO", "status_not_changed")>>
                                  /\ UNCHANGED <<prev_status, timestamp>>
             ELSE /\ log' = Append(log, LogEntry("INFO", "status_not_changed"))
                  /\ UNCHANGED <<prev_status, timestamp, chat>>
    /\ pc' = "sleep"
    /\ UNCHANGED <<env, prev_err_msg, response, homeworks, verdict, error, http,
                   slept, polled, last>>

\* HandleError without the logger.error call
HandleErrorSilent ==
    /\ pc = "except"
    /\ LET err_msg == ErrMsg(error)
       IN  \E outcome \in TransportOutcomes :
             LET s == send_message(err_msg, outcome)
             IN  /\ chat' = Append(chat, Sent(err_msg, outcome, s.ret))
                 /\ log' = Append(log, s.log)
                 /\ prev_err_msg' = IF s.ret THEN err_msg ELSE EmptyText
    /\ pc' = "sleep"
    /\ UNCHANGED <<env, timestamp, prev_status, response, homeworks, verdict, error,
                   http, slept, polled, last>>

\* HandleError that forgets the notified status when a cycle fails
HandleErrorResetsStatus ==
    /\ pc = "except"
    /\ LET err_msg == ErrMsg(error)
           log1 == Append(log, LogEntry("ERROR", "program_failure"))
       IN  \E outcome \in TransportOutcomes :
             LET s == send_message(err_msg, outcome)
             IN  /\ chat' = Append(chat, Sent(err_msg, outcome, s.ret))
                 /\ log' = Append(log1, s.log)
                 /\ prev_err_msg' = IF s.ret THEN err_msg ELSE EmptyText
    /\ prev_status' = ""
    /\ pc' = "sleep"
    /\ UNCHANGED <<env, timestamp, response, homeworks, verdict, error, http, slept,
                   polled, last>>

\* HandleError that lets main end when the error cannot be relayed
HandleErrorGivesUp ==
    /\ pc = "except"
    /\ LET err_msg == ErrMsg(error)
           log1 == Append(log, LogEntry("ERROR", "program_failure"))
       IN  \E outcome \in TransportOutcomes :
             LET s == send_message(err_msg, outcome)
             IN  /\ chat' = Append(chat, Sent(err_msg, outcome, s.ret))
                 /\ log' = Append(log1, s.log)
                 /\ prev_err_msg' = IF s.ret THEN err_msg ELSE EmptyText
                 /\ pc' = IF s.ret THEN "sleep" ELSE "terminated"
    /\ UNCHANGED <<env, timestamp, prev_status, response, homeworks, verdict, error,
                   http, slept, polled, last>>

\* lines 165-171: the except block; prev_err_msg is set to '' on entry
HandleError ==
    /\ pc = "except"
    /\ LET err_msg == ErrMsg(error)
           log1 == Append(log, LogEntry("ERROR", "program_failure"))
       IN  IF err_msg # EmptyText
             THEN \E outcome \in TransportOutcomes :
                    LET s == send_message(err_msg, outcome)
                    IN  /\ chat' = Append(chat, Sent(err_msg, outcome, s.ret))
                        /\ log' = Append(log1, s.log)
                        /\ prev_err_msg' = IF s.ret THEN err_msg ELSE EmptyText
             ELSE /\ log' = log1
                  /\ prev_err_msg' = EmptyText
                  /\ UNCHANGED chat
    /\ pc' = "sleep"
    /\ UNCHANGED <<env, timestamp, prev_status, response, homeworks, verdict, error,
                   http, slept, polled, last>>

\* lines 172-173: finally: time.sleep(RETRY_PERIOD), then the next iteration.
\* The locals of the cycle are dead from here on (the next cycle assigns each
\* before it reads it) and are cleared; last keeps the summary of the cycle.
Sleep ==
    /\ pc = "sleep"
    /\ slept' = slept + RETRY_PERIOD
    /\ pc' = "request"
    /\ last' = CycleSummary
    /\ response' = Unbound
    /\ homeworks' = Unbound
    /\ verdict' = Unbound
    /\ error' = Unbound
    /\ http' = Unbound
    /\ chat' = << >>
    /\ log' = << >>
    /\ UNCHANGED <<env, timestamp, prev_status, prev_err_msg, polled>>

Next ==
    \/ CheckTokens
    \/ Startup
    \/ GetApiAnswer
    \/ CheckResponse
    \/ ParseStatus
    \/ Notify
    \/ HandleError
    \/ Sleep

Spec == Init /\ [][Next]_vars

\* main is one thread that runs whenever it can: every step it can take, it takes
FairSpec == Spec /\ WF_vars(Next)

----------------------------------------------------------------------------
(* Properties *)

KnownStatuses == {"approved", "reviewing", "rejected"}

WellFormed(homework) ==
    /\ "homework_name" \in DOMAIN homework
    /\ "status" \in DOMAIN homework
    /\ homework["status"] \in KnownStatuses

\* C1: once main's loop runs (prev_status is bound), prev_status changes only
\* in the step that sent the status notification of homeworks[0] and got
\* True from send_message, and its new value is the status of homeworks[0];
\* no other step changes it.
C1_PrevStatusOnlyAfterDelivery ==
    [][(prev_status # UnboundStr /\ prev_status' # prev_status)
        => /\ pc = "compare"
           /\ chat' = Append(chat, Sent(verdict, "returned", TRUE))
           /\ prev_status' = homeworks.val[1]["status"]]_vars

C1_Witness ==
    /\ pc = "sleep"
    /\ prev_status = "approved"
    /\ last.status = "reviewing" /\ last.sent = 1 /\ last.delivered
    /\ chat = <<Sent(verdict, "returned", TRUE)>>

\* C2: when the cycle before formatted the verdict of a homework with status
\* s and every send_message of that cycle returned True, a cycle whose
\* homeworks[0] has the same status s sends no message, and the two cycles
\* together sent at most one.
C2_SameStatusSendsOnce ==
    [][(/\ pc = "compare"
        /\ last.status = homeworks.val[1]["status"]
        /\ last.delivered)
        => /\ chat = << >>
           /\ chat' = << >>
           /\ last.sent + Len(chat') <= 1]_vars

C2_Witness ==
    /\ pc = "sleep"
    /\ verdict # Unbound
    /\ homeworks.val[1]["status"] = "reviewing"
    /\ last.status = "reviewing" /\ last.sent = 1 /\ last.delivered
    /\ chat = << >>

\* C3: when the cycle before tried to send the notification of a status and
\* send_message returned False, a cycle whose homeworks[0] has the same
\* status tries the notification again; a send_message that
\* returns False leaves prev_status as it was (at its initial value '' as long
\* as no notification was delivered), and after a delivered notification the
\* same status is not sent again.
C3_RetryUntilDelivered ==
    [][pc = "compare"
        => /\ (/\ last.sent = 1 /\ ~last.delivered
               /\ last.status = homeworks.val[1]["status"])
              => (Len(chat') = 1 /\ chat'[1].text = verdict)
           /\ (Len(chat') = 1 /\ ~chat'[1].ok) => prev_status' = prev_status
           /\ (prev_status = homeworks.val[1]["status"]) => chat' = chat]_vars

C3_Witness ==
    /\ pc = "sleep"
    /\ verdict # Unbound
    /\ prev_status = ""
    /\ last.status = "reviewing" /\ last.sent = 1 /\ ~last.delivered
    /\ homeworks.val[1] = [homework_name |-> "hw1", status |-> "reviewing"]
    /\ chat = <<Sent(verdict, "raised", FALSE)>>

\* C4: from every position of the loop, whatever get_api_answer,
\* check_response or parse_status raised and whether or not the error message
\* was delivered, main comes back to the request after one sleep of
\* RETRY_PERIOD, and from there issues the next request.
C4_LoopAlwaysPollsAgain ==
    /\ (pc \in {"check_response", "parse_status", "compare", "except", "sleep"})
          ~> (pc = "request" /\ slept = RETRY_PERIOD)
    /\ (pc = "request") ~> (pc \in {"check_response", "except"} /\ slept = 0)

C4_Witness ==
    /\ pc = "request"
    /\ polled
    /\ slept = RETRY_PERIOD
    /\ last.status = "" /\ last.sent = 1 /\ ~last.delivered

\* C5: check_tokens raises exactly when some variable is unset, and the
\* error then names exactly the unset variables, all of them.
MissingTokens == {TokenNames[i] : i \in {j \in 1 .. Len(TokenNames) : env[TokenNames[j]] = None}}

C5_ErrorNamesEveryMissingToken ==
    pc # "check_tokens"
      => IF MissingTokens = {}
           THEN pc # "terminated"
           ELSE /\ pc = "terminated"
                /\ error.type = "TokenCheckError"
                /\ {error.message.names[i] : i \in 1 .. Len(error.message.names)} = MissingTokens

\* C6: in the step that compares a homeworks[0] whose status differs from
\* prev_status, the notification is sent; if send_message returns True,
\* prev_status becomes that status and timestamp the response's current_date
\* (None when the response has none); if it returns False both keep their
\* values.
C6_NotifyUpdatesBothOrNone ==
    [][(pc = "compare" /\ homeworks.val[1]["status"] # prev_status)
        => /\ Len(chat') = 1
           /\ chat'[1].text = verdict
           /\ IF chat'[1].ok
                THEN /\ prev_status' = homeworks.val[1]["status"]
                     /\ timestamp' = IF "current_date" \in DOMAIN response.val
                                       THEN response.val["current_date"]
                                       ELSE None
                ELSE /\ prev_status' = prev_status
                     /\ timestamp' = timestamp]_vars

C6_Witness ==
    /\ pc = "sleep"
    /\ chat = <<Sent(verdict, "returned", TRUE)>>
    /\ last.status = "" /\ last.sent = 0
    /\ "current_date" \in DOMAIN response.val
    /\ response.val["current_date"] = PyInt(MaxDate)
    /\ timestamp = PyInt(MaxDate)
    /\ prev_status = "rejected"

\* C7: a cycle whose response is a dict with an empty list under homeworks
\* logs that, sends nothing, leaves prev_status and timestamp alone, and
\* sleeps RETRY_PERIOD before the next request.
EmptyAnswer(resp) ==
    /\ resp.type = "dict"
    /\ "homeworks" \in DOMAIN resp.val
    /\ resp.val["homeworks"] = PyList(<< >>)

C7_EmptyListIsQuiet ==
    [][/\ (pc = "check_response" /\ EmptyAnswer(response))
          => /\ pc' = "sleep"
             /\ chat' = << >>
             /\ log' = Append(log, LogEntry("DEBUG", "no_homeworks"))
             /\ UNCHANGED <<prev_status, timestamp>>
       /\ (pc = "sleep" /\ response # Unbound /\ EmptyAnswer(response))
          => /\ pc' = "request"
             /\ slept' = RETRY_PERIOD
             /\ last'.sent = 0
             /\ UNCHANGED <<prev_status, timestamp>>]_vars

C7_Witness ==
    /\ pc = "sleep"
    /\ response # Unbound
    /\ EmptyAnswer(response)
    /\ chat = << >>
    /\ log = <<LogEntry("DEBUG", "request"), LogEntry("DEBUG", "no_homeworks")>>

\* C8: every send_message call returns a boolean, True exactly when
\* bot.send_message returned and False, with an error logged, when it raised;
\* no exception of the transport ends main or reaches the except block.
C8_SendMessageReturnsOutcome ==
    /\ \A i \in 1 .. Len(chat) :
         /\ chat[i].ok \in BOOLEAN
         /\ chat[i].ok = (chat[i].transport = "returned")
         /\ ~chat[i].ok => LogEntry("ERROR", "telegram_not_sent") \in {log[j] : j \in 1 .. Len(log)}
    /\ pc = "terminated" => chat = << >>
    /\ (pc = "sleep" /\ error = Unbound /\ chat # << >>) => chat[1].text = verdict

C8_Witness ==
    /\ pc = "sleep"
    /\ error = Unbound
    /\ chat = <<Sent(verdict, "raised", FALSE)>>

\* C9: parse_status returns the sentence with the homework's name and the
\* verdict of its status exactly when the record has a name and one of the
\* three known statuses, and raises HomeworkError otherwise, a record
\* without status included.
ParseStatusApplied ==
    /\ pc \in {"compare", "except"}
    /\ homeworks # Unbound
    /\ homeworks.val # << >>

C9_ParseStatusContract ==
    ParseStatusApplied
      => LET homework == homeworks.val[1]
         IN  IF WellFormed(homework)
               THEN /\ pc = "compare"
                    /\ verdict.homework_name = homework["homework_name"]
                    /\ verdict.verdict = HOMEWORK_VERDICTS[homework["status"]]
               ELSE /\ pc = "except"
                    /\ error.type = "HomeworkError"

\* C10: a RequestException of the GET gives ConnectionError, a status other
\* than 200 gives ResponseStatusNotOK carrying that status code, and a
\* decoded body is returned only for a 200 response, and is that
\* response's body.
C10_ApiFailuresClassified ==
    http # Unbound
      => /\ http.kind = "RequestException"
              => (response = Unbound /\ error.type = "ConnectionError")
         /\ (http.kind = "response" /\ http.status_code # 200)
              => /\ response = Unbound
                 /\ error.type = "ResponseStatusNotOK"
                 /\ error.message.status_code = http.status_code
         /\ response # Unbound
              => (http.kind = "response" /\ http.status_code = 200 /\ response = http.body)

C10_Witness ==
    /\ pc = "except"
    /\ http = HttpResponse(404, PyDict([homeworks |-> PyList(<< >>)]))
    /\ error.type = "ResponseStatusNotOK"
    /\ error.message.status_code = 404

\* C11: check_response returns the value under key homeworks, an empty list
\* included, exactly when the response is a dict that has the key homeworks
\* with a list under it; for every other response it raises the schema error
\* (TypeError) and main gets no list.
ValidAnswer(resp) ==
    /\ resp.type = "dict"
    /\ "homeworks" \in DOMAIN resp.val
    /\ resp.val["homeworks"].type = "list"

C11_CheckResponseContract ==
    [][pc = "check_response"
        => IF ValidAnswer(response)
             THEN /\ homeworks' = response.val["homeworks"]
                  /\ pc' \in {"parse_status", "sleep"}
                  /\ error' = Unbound
             ELSE /\ pc' = "except"
                  /\ error'.type = "TypeError"
                  /\ homeworks' = Unbound]_vars

C11_Witness ==
    /\ pc = "except"
    /\ response = PyDict([homeworks |-> PyDict(EmptyMap)])
    /\ error.type = "TypeError"
    /\ homeworks = Unbound

\* C12: check_tokens runs before anything else; when it raises, main ends
\* having sent no message and issued no request; when it passes, the
\* "started" message is tried exactly once, before the first request, with
\* prev_status set to '', and no later cycle sends it again.
IsStartedMessage(text) == \E now \in Dates : text = StartedMessage(now)

C12_StartupOrder ==
    /\ pc \in {"check_tokens", "startup", "terminated"}
         => (chat = << >> /\ ~polled /\ slept = 0)
    /\ pc = "terminated" => (MissingTokens # {} /\ error.type = "TokenCheckError")
    /\ pc \notin {"check_tokens", "terminated"} => MissingTokens = {}
    /\ (pc = "request" /\ ~polled)
         => /\ Len(chat) = 1
            /\ IsStartedMessage(chat[1].text)
            /\ prev_status = ""
            /\ timestamp.type = "int"
    /\ polled => \A i \in 1 .. Len(chat) : ~IsStartedMessage(chat[i].text)

C12_Witness ==
    /\ pc = "request"
    /\ ~polled
    /\ chat = <<Sent(StartedMessage(1), "returned", TRUE)>>
    /\ prev_status = ""

\* C13: an exception raised in the loop is either waiting for the except
\* block or has been handled, and once it has been handled (main is at the
\* sleep of that cycle) the log of the cycle holds the error entry for it; the
\* entry is written in the step of the except block, before the sleep and
\* the next request.
Logged(entry) == entry \in {log[j] : j \in 1 .. Len(log)}

C13_CaughtErrorIsLogged ==
    (error # Unbound /\ pc # "terminated")
      => /\ pc \in {"except", "sleep"}
         /\ slept = 0
         /\ pc = "sleep" => Logged(LogEntry("ERROR", "program_failure"))

C13_Witness ==
    /\ pc = "sleep"
    /\ error # Unbound
    /\ error.type = "ResponseStatusNotOK"
    /\ chat = <<Sent(ErrMsg(error), "raised", FALSE)>>
    /\ Logged(LogEntry("ERROR", "program_failure"))

\* C14: once a request has been issued, main reaches the next request only
\* through the sleep, which every way a cycle can end leads to (empty list,
\* status not changed, notification sent or not delivered, caught error);
\* at the next request exactly RETRY_PERIOD seconds have been slept since
\* the one before, and nothing is slept in the middle of a cycle.
C14_OneSleepBetweenRequests ==
    [][polled
        => /\ pc' = "request" => (pc = "sleep" /\ slept = 0 /\ slept' = RETRY_PERIOD)
           /\ pc = "request" => (slept = RETRY_PERIOD /\ slept' = 0)
           /\ pc \in {"compare", "except"} => pc' = "sleep"
           /\ pc = "check_response" => pc' \in {"parse_status", "except", "sleep"}
           /\ pc = "parse_status" => pc' \in {"compare", "except"}
           /\ pc # "sleep" => slept' \in {slept, 0}]_vars

C14_Witness ==
    /\ pc = "request"
    /\ polled
    /\ slept = RETRY_PERIOD
    /\ last.status = "" /\ last.sent = 0

\* C15: in the loop, a step changes prev_status or timestamp only if it is
\* the step that sent the status notification and got True from
\* send_message; the steps of a cycle that ends in a caught error (error
\* message delivered or not), in an empty list or in an unchanged status
\* leave both as they were, so the next request has the same from_date.
C15_LoopStateOnlyAfterDelivery ==
    [][(prev_status # UnboundStr /\ <<prev_status, timestamp>>' # <<prev_status, timestamp>>)
        => /\ pc = "compare"
           /\ homeworks.val[1]["status"] # prev_status
           /\ chat' = <<Sent(verdict, "returned", TRUE)>>]_vars

C15_Witness ==
    /\ pc = "sleep"
    /\ error # Unbound
    /\ chat = <<Sent(ErrMsg(error), "returned", TRUE)>>
    /\ prev_status = "approved"
    /\ last.status = "approved" /\ last.sent = 1 /\ last.delivered

\* C16: only homeworks[0] counts.  Stated step by step: every step of a
\* cycle has, on the messages sent, the log, prev_status, timestamp, verdict
\* and the exception raised, exactly the effect that check_response,
\* parse_status and the comparison have on any response that differs from
\* the one received only in the records after homeworks[0], given what the
\* transport did.  Two runs whose responses differ only in those records
\* therefore send the same messages and go through the same prev_status and
\* timestamp.
WithOlder(resp, older) ==
    PyDict([k \in DOMAIN resp.val |->
              IF k = "homeworks"
                THEN PyList(<<resp.val[k].val[1]>> \o older)
                ELSE resp.val[k]])

\* the responses equal to resp but for the records after homeworks[0]
SameButOlder(resp) == {WithOlder(resp, older) : older \in SeqsUpTo(OlderRecords, MaxOlder)}

C16_OnlyFirstHomeworkCounts ==
    [][\A other \in IF pc \in {"check_response", "parse_status", "compare", "sleep"}
                         /\ ValidAnswer(response)
                         /\ response.val["homeworks"].val # << >>
                      THEN SameButOlder(response)
                      ELSE {} :
         LET t == check_response(other)
             first == t.value.val[1]
             r == parse_status(first)
         IN  /\ pc = "check_response"
                => /\ ~t.raised
                   /\ t.value.val # << >>
                   /\ pc' = "parse_status"
                   /\ homeworks'.val[1] = first
                   /\ UNCHANGED <<chat, log, prev_status, timestamp, verdict, error>>
             /\ pc = "parse_status"
                => /\ IF r.raised
                        THEN pc' = "except" /\ error' = r.exc /\ verdict' = verdict
                        ELSE pc' = "compare" /\ verdict' = r.value /\ error' = error
                   /\ UNCHANGED <<chat, log, prev_status, timestamp>>
             /\ pc = "compare"
                => IF first["status"] = prev_status
                     THEN UNCHANGED <<chat, prev_status, timestamp>>
                     ELSE /\ Len(chat') = 1
                          /\ chat'[1].text = r.value
                          /\ chat'[1].ok = (chat'[1].transport = "returned")
                          /\ IF chat'[1].ok
                               THEN /\ prev_status' = first["status"]
                                    /\ timestamp' = Get(other, "current_date")
                               ELSE UNCHANGED <<prev_status, timestamp>>
             /\ (pc = "sleep" /\ verdict # Unbound)
                => /\ last'.name = first["homework_name"]
                   /\ last'.status = first["status"]]_vars

C16_Witness ==
    /\ pc = "sleep"
    /\ homeworks # Unbound
    /\ homeworks.val = <<[homework_name |-> "hw1", status |-> "reviewing"],
                         [homework_name |-> "hw2", status |-> "approved"]>>
    /\ verdict # Unbound
    /\ verdict.homework_name = "hw1"
    /\ chat = <<Sent(verdict, "returned", TRUE)>>
    /\ prev_status = "reviewing"

\* C17: an error message equal to the one last delivered to the chat
\* (prev_err_msg) is not sent again by the except block; a message that
\* differs from it is sent.
C17_SameErrorNotSentAgain ==
    [][pc = "except"
        => IF ErrMsg(error) = prev_err_msg
             THEN chat' = chat
             ELSE /\ Len(chat') = 1
                  /\ chat'[1].text = ErrMsg(error)]_vars

\* C18: once main has set it, timestamp (the from_date of every request) is
\* a timestamp, never None, whatever responses the cycles received.
C18_TimestampNeverNone ==
    pc \in {"request", "check_response", "parse_status", "compare", "except", "sleep"}
      => (timestamp # None /\ timestamp.type = "int")

\* C19: the comparison is on the status alone.  Whatever the name of
\* homeworks[0], and so also when it is another homework than the one last
\* notified, a status equal to prev_status gives no send_message call and
\* leaves prev_status and timestamp as they are; the cycle logs "status not
\* changed" and goes to sleep.
C19_ComparesStatusOnly ==
    [][\A name \in HomeworkNames :
         (/\ pc = "compare"
          /\ homeworks.val[1]["homework_name"] = name
          /\ homeworks.val[1]["status"] = prev_status)
         => /\ chat' = << >>
            /\ UNCHANGED <<prev_status, timestamp>>
            /\ log' = Append(log, LogEntry("INFO", "status_not_changed"))
            /\ pc' = "sleep"]_vars

C19_Witness ==
    /\ pc = "sleep"
    /\ verdict # Unbound
    /\ last.name = "hw1" /\ last.status = "approved" /\ last.sent = 1 /\ last.delivered
    /\ homeworks.val[1] = [homework_name |-> "hw2", status |-> "approved"]
    /\ prev_status = "approved"
    /\ chat = << >>

====
